---- MODULE Spec2Model ----
(***************************************************************************)
(* The MoltMart x402 facilitator (facilitator/src/index.ts): the /verify   *)
(* and /settle handlers of the one Express process, the x402 signer with   *)
(* its pending-nonce lookups, the fee split and forwarding transfer of     *)
(* forwardToSeller, and the hot wallet's account on the chain.             *)
(*                                                                         *)
(* A handler runs atomically between two awaits; every await on an RPC     *)
(* call is a point where the other handlers and the chain may move.       *)
(* The request body is immutable: a field is drawn when the handler first  *)
(* reads it.  What the @x402 library and the RPC node do is not in the     *)
(* repository: each is a nondeterministic choice over its outcomes.        *)
(*                                                                         *)
(* Before its route handler a request passes express.json() and the CORS   *)
(* middleware; GET /health answers from the startup configuration.  The    *)
(* frontend's GET /skill.md route (frontend/src/app/skill.md/route.ts) is  *)
(* a separate program with a state of its own.                             *)
(***************************************************************************)
EXTENDS Integers, Sequences, FiniteSets, TLC

VARIABLES
    pc,       \* [Req -> location of the handler serving the request]
    nonce,    \* [Req -> the signer's local `nonce` (index.ts:178, 199)]
    via,      \* [Req -> the signer method running for the request, "none" outside]
    args,     \* [Req -> the handler's locals sellerWallet, amountMicroUsdc, feeBps, ...]
    rpcErr,   \* [Req -> the RPC call of this request that failed, "none" if none]
    resp,     \* [Req -> the HTTP response sent, NoResp before]
    txCount,  \* transactions of the hot wallet the node has accepted (count at 'pending')
    mined,    \* transactions of the hot wallet included in a block (count at 'latest')
    sent,     \* every write handed to walletClient, with its nonce and its fate
    config,   \* the environment the process was started with
    hdr,      \* [Req -> the request's Origin and method, the response's CORS headers]
    page      \* the /skill.md route: the request's host, x-forwarded-host, url, the file served

vars == <<pc, nonce, via, args, rpcErr, resp, txCount, mined, sent, config, hdr, page>>

----------------------------------------------------------------------------
(* Bounds of the model *)

MaxReq == 2        \* requests the process serves
MaxGross == 6      \* gross amounts 0..MaxGross of the direct forwardToSeller calls
MaxMsgLen == 4     \* tokens in the message of an error thrown by facilitator.settle

(* Program constants *)

DefaultFeeBps == 300
BpsDenominator == 10000

Req == 1..MaxReq

----------------------------------------------------------------------------
(* Request inputs *)

\* paymentRequirements.extra.fee_bps as JSON: absent, an integer (nothing
\* in the handler bounds it: it may be negative or above 10000), or a
\* number with a fraction (2.5).
FeeAbsent == [kind |-> "absent", v |-> 0]
FeeInt(n) == [kind |-> "int", v |-> n]
FeeFrac == [kind |-> "frac", v |-> 2]
NegativeFee == -100
ExcessiveFee == 20000
SampleFees == {FeeAbsent, FeeInt(0), FeeInt(250), FeeFrac,
               FeeInt(NegativeFee), FeeInt(ExcessiveFee)}

\* paymentRequirements.maxAmountRequired: a decimal string, or something
\* BigInt() cannot convert.
AmtInt(n) == [kind |-> "int", v |-> n]
AmtBad == [kind |-> "bad", v |-> 0]

\* The gross amount (micro-USDC) the buyers' authorizations are signed for.
SampleGross == {100}

\* Gross amounts and fees of the direct calls of forwardToSeller.
LargeGross == {9999, 10001, 200000}
GrossAmounts == (0..MaxGross) \cup LargeGross
FeeRange == 0..BpsDenominator

\* paymentRequirements.payTo: the facilitator's own wallet or another address.
PayTos == {"facilitator", "other"}

\* paymentPayload.network: absent (or empty) or a network identifier.
Networks == {"", "eip155:8453"}

----------------------------------------------------------------------------
(* Configuration read at startup *)

\* process.env.USE_TESTNET, process.env.FACILITATOR_PRIVATE_KEY
TestnetEnvs == {"unset", "true", "TRUE", "True", "1"}
Keys == {"key1", "key2"}
KeyEnvs == Keys \cup {"unset", ""}

\* String.prototype.toLowerCase
ToLowerCase(s) == IF s \in {"TRUE", "True"} THEN "true" ELSE s

\* A start that never finds the key missing.
KeyMissingNever(key) == FALSE

\* if (!FACILITATOR_PRIVATE_KEY): unset or empty
KeyMissing(key) == key \in {"unset", ""}

\* const USE_TESTNET = process.env.USE_TESTNET?.toLowerCase() === "true"
UseTestnet(env) == env # "unset" /\ ToLowerCase(env) = "true"

\* BASE_NETWORK and BASE_USDC of the two branches
BaseNetwork(testnet) == IF testnet THEN "eip155:84532" ELSE "eip155:8453"
BaseUsdc(testnet) ==
    IF testnet THEN "0x036CbD53842c5426634e7929541eC2318f3dCF7e"
    ELSE "0x833589fCD6eDb6E08f4c7C32D4f71b54bdA02913"

\* The mainnet contract whatever the configuration.
ForwardContractMainnet(cfg) == BaseUsdc(FALSE)

\* address: BASE_USDC of the forwarding transfer
ForwardContract(cfg) == BaseUsdc(UseTestnet(cfg.USE_TESTNET))

\* registerExactEvmScheme(facilitator, {signer, networks: BASE_NETWORK, ...})
RegisteredNetwork(cfg) == BaseNetwork(UseTestnet(cfg.USE_TESTNET))

\* privateKeyToAccount(FACILITATOR_PRIVATE_KEY).address
AccountAddress(key) == IF key = "key1" THEN "0xWalletOfKey1" ELSE "0xWalletOfKey2"

\* A request header: absent, or a string (a sequence of tokens).
Absent == [present |-> FALSE, value |-> <<>>]
Header(v) == [present |-> TRUE, value |-> v]

\* Origins, and the two separators an ALLOWED_ORIGINS string is made of.
Moltmart == "https://moltmart.app"
Localhost == "http://localhost:3000"
Elsewhere == "https://elsewhere.example"
Comma == ","
Blank == " "

\* process.env.ALLOWED_ORIGINS: unset or empty (<<>>), one origin, a list
\* written with a blank after the comma, a list with an empty entry.
AllowedEnvs == {<<>>, <<Moltmart>>, <<Elsewhere, Comma, Blank, Moltmart>>,
                <<Moltmart, Comma, Comma, Localhost>>}
DefaultAllowedOrigins == <<Moltmart, Comma, Localhost>>

\* The Origin header of a request.
OriginHeaders == {Absent, Header(<<>>), Header(<<Moltmart>>), Header(<<Localhost>>),
                  Header(<<Elsewhere>>), Header(<<Blank, Moltmart>>)}

\* String.prototype.split(","): the pieces between the commas, untrimmed.
RECURSIVE Split(_)
Split(s) ==
    LET commas == {i \in 1..Len(s) : s[i] = Comma}
    IN  IF commas = {} THEN <<s>>
        ELSE LET i == CHOOSE j \in commas : \A k \in commas : j <= k
             IN  <<SubSeq(s, 1, i - 1)>> \o Split(SubSeq(s, i + 1, Len(s)))

\* Array.prototype.includes
Includes(list, x) == \E i \in 1..Len(list) : list[i] = x

\* (process.env.ALLOWED_ORIGINS || "https://moltmart.app,http://localhost:3000").split(",")
AllowedOrigins(env) == Split(IF env = <<>> THEN DefaultAllowedOrigins ELSE env)

\* An Access-Control-Allow-Origin set for every origin that is sent.
CorsOriginReflected(origin, allowed) ==
    IF origin.present /\ origin.value # <<>> THEN origin ELSE Absent

\* if (origin && ALLOWED_ORIGINS.includes(origin)) res.header(..., origin):
\* the Access-Control-Allow-Origin header of the response, Absent if not set.
CorsOrigin(origin, allowed) ==
    IF origin.present /\ origin.value # <<>> /\ Includes(allowed, origin.value)
    THEN origin ELSE Absent

\* The environment, and how far the process has come: "starting" while the
\* module runs, then "listening" or "exited" with its exit code.
Environments == [USE_TESTNET : TestnetEnvs, ALLOWED_ORIGINS : AllowedEnvs, key : KeyEnvs,
                 proc : {"starting"}, exitCode : {0}, registered : {""}]

\* The module has run to app.listen.
Started(cfg) == [cfg EXCEPT !.proc = "listening", !.registered = RegisteredNetwork(cfg)]

\* process.exit(1)
Exited(cfg) == [cfg EXCEPT !.proc = "exited", !.exitCode = 1]

\* The process started with nothing but the key in its environment.
DefaultConfig ==
    Started([USE_TESTNET |-> "unset", ALLOWED_ORIGINS |-> <<>>, key |-> "key1",
             proc |-> "starting", exitCode |-> 0, registered |-> ""])

NoHdr == [origin |-> Absent, options |-> FALSE, parsed |-> FALSE,
          acao |-> Absent, allowMethods |-> FALSE]

----------------------------------------------------------------------------
(* GET /skill.md of the frontend *)

MaxHostLen == 2    \* tokens in a host, an x-forwarded-host or a url

\* A string is a sequence of tokens; the text 'testnet' is "test" followed
\* by "net".
HostTokens == {"test", "net", "x"}

RECURSIVE Strings(_)
Strings(n) == IF n = 0 THEN {<<>>}
              ELSE LET S == Strings(n - 1)
                   IN  S \cup {Append(s, t) : s \in {x \in S : Len(x) = n - 1}, t \in HostTokens}

HostHeaders == {Absent} \cup {Header(v) : v \in Strings(MaxHostLen)}

\* request.headers.get(...) || ''
OrEmpty(h) == IF h.present /\ h.value # <<>> THEN h.value ELSE <<>>

\* String.prototype.includes('testnet')
IncludesTestnet(str) == \E i \in 1..(Len(str) - 1) : str[i] = "test" /\ str[i + 1] = "net"

\* The file chosen on the host header alone.
SkillFileByHost(host, forwardedHost, url) ==
    IF IncludesTestnet(OrEmpty(host)) THEN "skill-testnet.md" ELSE "skill-production.md"

\* isTestnet ? 'skill-testnet.md' : 'skill-production.md'
SkillFile(host, forwardedHost, url) ==
    IF \/ IncludesTestnet(OrEmpty(host))
       \/ IncludesTestnet(OrEmpty(forwardedHost))
       \/ IncludesTestnet(url)
    THEN "skill-testnet.md" ELSE "skill-production.md"

\* fs.readFileSync(path.join(process.cwd(), 'public', filename)): the
\* document served is the content of that file.
Document(filename) == <<"public", filename>>

----------------------------------------------------------------------------
(* GET /skill.md with testnet templating.  The document is a sequence of   *)
(* tokens: the text 'https://api.moltmart.app' is "https://", "api.",      *)
(* "moltmart.app"; 'eip155:84532' is "eip155:8453" followed by "2".        *)

MaxDocLen == 3    \* tokens in public/skill.md

DocTokens == {"https://", "api.", "moltmart.app", "network: ", "eip155:8453", "2", "text"}

RECURSIVE Documents(_)
Documents(n) == IF n = 0 THEN {<<>>}
                ELSE LET S == Documents(n - 1)
                     IN  S \cup {Append(s, t) : s \in {x \in S : Len(x) = n - 1},
                                                t \in DocTokens}

\* String.prototype.replace(/pattern/g, replacement): every match, found
\* from left to right and not overlapping, is replaced.
RECURSIVE ReplaceAll(_, _, _)
ReplaceAll(str, pattern, replacement) ==
    IF Len(str) < Len(pattern) THEN str
    ELSE IF SubSeq(str, 1, Len(pattern)) = pattern
         THEN replacement \o ReplaceAll(SubSeq(str, Len(pattern) + 1, Len(str)),
                                        pattern, replacement)
         ELSE <<Head(str)>> \o ReplaceAll(Tail(str), pattern, replacement)

ApiUrl == <<"https://", "api.", "moltmart.app">>
TestnetApiUrl == <<"https://", "testnet-api.", "moltmart.app">>
SiteUrl == <<"https://", "moltmart.app">>
TestnetSiteUrl == <<"https://", "testnet.", "moltmart.app">>
MainnetId == <<"eip155:8453">>
TestnetId == <<"eip155:8453", "2">>
NetworkLine == <<"network: ", "eip155:8453">>
TestnetNetworkLine == <<"network: ", "eip155:8453", "2", "  # Base Sepolia TESTNET">>

\* The three replacements that both routes chain.
ReplaceUrlsAndId(content) ==
    ReplaceAll(ReplaceAll(ReplaceAll(content, ApiUrl, TestnetApiUrl),
                          SiteUrl, TestnetSiteUrl),
               MainnetId, TestnetId)

\* The chain of the route that reads the environment: a fourth replacement
\* runs on the result of the third.
ReplaceWithComment(content) ==
    ReplaceAll(ReplaceUrlsAndId(content), NetworkLine, TestnetNetworkLine)

TestnetWarning == <<"> TESTNET VERSION - Uses Base Sepolia + Test USDC. No real funds!">>
Warning == <<"> TESTNET - Base Sepolia + Test USDC. No real funds!">>

\* process.env.API_URL || process.env.NEXT_PUBLIC_API_URL || '', the same
\* for the site URL, and the two flags.
UrlEnvs == {<<>>, <<"x">>, <<"test", "net">>}
FlagEnvs == {"unset", "true", "TRUE"}
SkillEnvs == [apiUrl : UrlEnvs, siteUrl : UrlEnvs, TESTNET : FlagEnvs, USE_TESTNET : FlagEnvs]
NoEnv == [apiUrl |-> <<>>, siteUrl |-> <<>>, TESTNET |-> "unset", USE_TESTNET |-> "unset"]

\* isTestnet of the route that reads the environment
IsTestnetEnv(env) ==
    \/ IncludesTestnet(env.apiUrl)
    \/ IncludesTestnet(env.siteUrl)
    \/ env.TESTNET = "true"
    \/ env.USE_TESTNET = "true"

\* isTestnet of the route that reads the host header
IsTestnetHost(host) == IncludesTestnet(OrEmpty(host))

\* The body the route that reads the environment returns.
SkillByEnv(content, env) ==
    IF IsTestnetEnv(env) THEN TestnetWarning \o ReplaceWithComment(content) ELSE content

\* The body the route that reads the host header returns.
SkillByHost(content, host) ==
    IF IsTestnetHost(host) THEN Warning \o ReplaceUrlsAndId(content) ELSE content

NoPage == [stage |-> "none", host |-> Absent, forwardedHost |-> Absent, url |-> <<>>,
           served |-> <<>>, again |-> <<>>,
           file |-> <<>>, env |-> NoEnv, testnet |-> FALSE, body |-> <<>>]

----------------------------------------------------------------------------
(* Error messages.  A message is a sequence of tokens: "SA" stands for the *)
(* text "Settlement aborted:", "SP" for one space, "X" for any other text. *)

Tokens == {"SA", "SP", "X"}

RECURSIVE SeqsUpTo(_)
SeqsUpTo(n) == IF n = 0 THEN {<<>>}
               ELSE LET S == SeqsUpTo(n - 1)
                    IN  S \cup {Append(s, t) : s \in {x \in S : Len(x) = n - 1}, t \in Tokens}

\* A thrown value: an Error with a message, or something that is no Error.
Thrown(isErr, msg) == [isError |-> isErr, message |-> msg]
AllThrown == {Thrown(e, m) : e \in BOOLEAN, m \in SeqsUpTo(MaxMsgLen)}
SampleThrown == {Thrown(TRUE, <<"SA", "SP", "X">>), Thrown(TRUE, <<"X">>),
                 Thrown(FALSE, <<"SA", "SP", "X">>)}
RpcError == Thrown(TRUE, <<"X">>)
UnknownError == <<"Unknown error">>

\* String.prototype.includes("Settlement aborted:")
IncludesAborted(msg) == \E i \in 1..Len(msg) : msg[i] = "SA"

\* Every occurrence of "Settlement aborted: " removed (replaceAll).
RECURSIVE ReplaceAllAborted(_)
ReplaceAllAborted(msg) ==
    IF Len(msg) < 2 THEN msg
    ELSE IF msg[1] = "SA" /\ msg[2] = "SP" THEN ReplaceAllAborted(SubSeq(msg, 3, Len(msg)))
    ELSE <<msg[1]>> \o ReplaceAllAborted(Tail(msg))

\* String.prototype.replace("Settlement aborted: ", ""): the first occurrence
\* of the text, wherever it is, is removed; without one the string is unchanged.
ReplaceAborted(msg) ==
    LET hits == {i \in 1..(Len(msg) - 1) : msg[i] = "SA" /\ msg[i + 1] = "SP"}
    IN  IF hits = {} THEN msg
        ELSE LET i == CHOOSE j \in hits : \A k \in hits : j <= k
             IN  SubSeq(msg, 1, i - 1) \o SubSeq(msg, i + 2, Len(msg))

----------------------------------------------------------------------------
(* Responses *)

NoForward == [present |-> FALSE, seller_micro |-> 0, fee_micro |-> 0,
              forward_tx |-> FALSE, forward_success |-> FALSE]
NoResp == [status |-> 0, route |-> "none", success |-> "none", isValid |-> "none",
           txHash |-> FALSE, errorReason |-> <<>>, network |-> "", error |-> <<>>,
           forward |-> NoForward, state |-> "", wallet |-> "", usdc |-> ""]

NoError == [isError |-> FALSE, message |-> <<>>]
NoArgs == [seller |-> FALSE, gross |-> 0, payTo |-> "none", fee_bps |-> FeeAbsent,
           amount |-> 0, feeBps |-> 0, sellerAmount |-> 0, feeAmount |-> 0,
           settled |-> FALSE, threw |-> FALSE, err |-> NoError, network |-> "",
           forwardOk |-> FALSE]

\* res.status(400).json({error: "Missing paymentPayload or paymentRequirements"})
BadRequest(route) == [NoResp EXCEPT !.status = 400, !.route = route, !.error = <<"Missing">>]

\* The error sent without res.status(500).
ServerErrorNoStatus(route, err) ==
    [NoResp EXCEPT !.status = 200, !.route = route,
                   !.error = IF err.isError THEN err.message ELSE UnknownError]

\* res.status(500).json({error: error instanceof Error ? error.message : "Unknown error"})
ServerError(route, err) ==
    [NoResp EXCEPT !.status = 500, !.route = route,
                   !.error = IF err.isError THEN err.message ELSE UnknownError]

\* The answer of Express to a body express.json() cannot parse.
ParserError == [NoResp EXCEPT !.status = 400, !.route = "parser"]

\* res.sendStatus(200) of the CORS middleware
OptionsOk == [NoResp EXCEPT !.status = 200, !.route = "options"]

\* A health answer with the mainnet identifiers written out.
HealthJsonMainnet(cfg) ==
    [NoResp EXCEPT !.status = 200, !.route = "health", !.state = "ok",
                   !.network = BaseNetwork(FALSE),
                   !.wallet = AccountAddress(cfg.key),
                   !.usdc = BaseUsdc(FALSE)]

\* res.json({status: "ok", network: BASE_NETWORK, wallet: account.address, usdc: BASE_USDC})
HealthJson(cfg) ==
    [NoResp EXCEPT !.status = 200, !.route = "health", !.state = "ok",
                   !.network = BaseNetwork(UseTestnet(cfg.USE_TESTNET)),
                   !.wallet = AccountAddress(cfg.key),
                   !.usdc = BaseUsdc(UseTestnet(cfg.USE_TESTNET))]

\* res.json({name, network: BASE_NETWORK, endpoints}) of GET /
RootJson(cfg) ==
    [NoResp EXCEPT !.status = 200, !.route = "root",
                   !.network = BaseNetwork(UseTestnet(cfg.USE_TESTNET))]

\* res.json(response) of /verify
VerifyJson(valid) ==
    [NoResp EXCEPT !.status = 200, !.route = "verify",
                   !.isValid = IF valid THEN "true" ELSE "false"]

\* res.json(response) of /settle; a failed settlement carries no transaction
SettleJson(success, forward) ==
    [NoResp EXCEPT !.status = 200, !.route = "settle",
                   !.success = IF success THEN "true" ELSE "false",
                   !.txHash = success, !.forward = forward]

----------------------------------------------------------------------------
(* forwardToSeller and the /settle handler's pure parts *)

\* BigInt division truncates toward zero.
BigIntDiv(a, b) == IF a >= 0 THEN a \div b ELSE -((-a) \div b)

\* A fee rounded up instead of down.
FeeAmountRoundedUp(amount, feeBps) ==
    BigIntDiv(amount * feeBps + BpsDenominator - 1, BpsDenominator)

\* A fee rounded to the nearest micro-USDC.
FeeAmountNearest(amount, feeBps) ==
    BigIntDiv(amount * feeBps + BpsDenominator \div 2, BpsDenominator)

\* const feeAmount = (amountMicroUsdc * BigInt(feeBps)) / BigInt(10000)
FeeAmount(amount, feeBps) == BigIntDiv(amount * feeBps, BpsDenominator)

\* const sellerAmount = amountMicroUsdc - feeAmount
SellerAmount(amount, feeBps) == amount - FeeAmount(amount, feeBps)

\* An absent fee_bps read as no fee.
EffectiveFeeBpsNoDefault(fee) == IF fee.kind = "absent" THEN FeeInt(0) ELSE fee

\* const feeBps = (paymentRequirements.extra.fee_bps as number) || 300
\* undefined and 0 are falsy; 2.5 is not.
EffectiveFeeBps(fee) ==
    IF fee.kind = "absent" \/ (fee.kind = "int" /\ fee.v = 0)
    THEN FeeInt(DefaultFeeBps) ELSE fee

\* BigInt(feeBps) throws a RangeError for a number that is no integer.
BigIntThrows(fee) == fee.kind # "int"

\* A forward decided on the seller wallet alone.
ShouldForwardAnySettle(success, seller) == seller

\* if (response.success && paymentRequirements.extra?.seller_wallet)
ShouldForward(success, seller) == success /\ seller

\* args: [sellerWallet, sellerAmount] of transfer(address, uint256): a
\* negative amount is no uint256, the call rejects before any transfer.
TransferRejects(amount) == amount < 0

\* walletClient.writeContract({...}) of forwardToSeller passes no nonce;
\* the signer's writeContract and sendTransaction pass `nonce`.
ForwardPassesNonce == FALSE
SignerPassesNonce == TRUE

\* The transaction count at 'latest': the transactions in blocks only.
SignerNonceLatest(pending, latest) == latest

\* publicClient.getTransactionCount({address, blockTag: 'pending'})
SignerNonce(pending, latest) == pending

\* A forward block that reports every forward as done.
ForwardBlockHidingFailure(amount, feeBps, ok) ==
    [present |-> TRUE,
     seller_micro |-> amount - BigIntDiv(amount * feeBps, BpsDenominator),
     fee_micro |-> BigIntDiv(amount * feeBps, BpsDenominator),
     forward_tx |-> TRUE, forward_success |-> TRUE]

\* A forward block whose amounts are computed with the fee rounded up.
ForwardBlockRoundedFee(amount, feeBps, ok) ==
    [present |-> TRUE,
     seller_micro |-> amount - FeeAmountRoundedUp(amount, feeBps),
     fee_micro |-> FeeAmountRoundedUp(amount, feeBps),
     forward_tx |-> ok, forward_success |-> ok]

\* (response as any).forward = {...}; the amounts are kept in micro-USDC
ForwardBlock(amount, feeBps, ok) ==
    [present |-> TRUE,
     seller_micro |-> amount - BigIntDiv(amount * feeBps, BpsDenominator),
     fee_micro |-> BigIntDiv(amount * feeBps, BpsDenominator),
     forward_tx |-> ok, forward_success |-> ok]

\* A failed forward answered as an error.
ForwardAnswerFailing(amount, feeBps, ok) ==
    IF ok THEN SettleJson(TRUE, ForwardBlock(amount, feeBps, ok))
    ELSE ServerError("settle", RpcError)

\* What /settle answers once forwardToSeller has returned: a failed forward
\* is logged, the forward block added, and res.json(response) sent.
ForwardAnswer(amount, feeBps, ok) == SettleJson(TRUE, ForwardBlock(amount, feeBps, ok))

\* error instanceof Error && error.message.includes("Settlement aborted:")
IsAborted(err) == err.isError /\ IncludesAborted(err.message)

\* The catch block of /settle.
SettleCatch(err, network) ==
    IF IsAborted(err)
    THEN [NoResp EXCEPT !.status = 200, !.route = "settle", !.success = "false",
                        !.errorReason = ReplaceAborted(err.message),
                        !.network = IF network = "" THEN "unknown" ELSE network]
    ELSE ServerError("settle", err)

----------------------------------------------------------------------------------------------------------------------------------------
(* The chain, as the hot wallet sees it *)

\* A write handed to walletClient: who sent it, from where (the signer or
\* forwardToSeller), with which nonce, whether the nonce was passed
\* explicitly, its fate, and the USDC it transfers out of the wallet.
Write(r, from, n, explicit, fate, amt, contract) ==
    [req |-> r, from |-> from, nonce |-> n, explicit |-> explicit,
     fate |-> fate, amount |-> amt, contract |-> contract]

\* The call fails before the node sees the transaction ("rpcError"), or the
\* node takes a transaction whose nonce is the account's next one
\* ("accepted") and refuses a lower one ("nonceTooLow").
Fate(rpcOk, n) == IF ~rpcOk THEN "rpcError"
                  ELSE IF n = txCount THEN "accepted" ELSE "nonceTooLow"

\* The writes that reached the node, and those it took.
Submitted == {w \in sent : w.fate # "rpcError"}
Accepted == {w \in sent : w.fate = "accepted"}
WritesOf(r) == {w \in sent : w.req = r}

----------------------------------------------------------------------------
(* State after construction *)

Init ==
    /\ pc = [r \in Req |-> "idle"]
    /\ nonce = [r \in Req |-> -1]
    /\ via = [r \in Req |-> "none"]
    /\ args = [r \in Req |-> NoArgs]
    /\ rpcErr = [r \in Req |-> "none"]
    /\ resp = [r \in Req |-> NoResp]
    /\ txCount = 0
    /\ mined = 0
    /\ sent = {}
    /\ config = DefaultConfig
    /\ hdr = [r \in Req |-> NoHdr]
    /\ page = NoPage

\* The frontend with any content of public/skill.md.
InitTemplate ==
    /\ pc = [r \in Req |-> "idle"]
    /\ nonce = [r \in Req |-> -1]
    /\ via = [r \in Req |-> "none"]
    /\ args = [r \in Req |-> NoArgs]
    /\ rpcErr = [r \in Req |-> "none"]
    /\ resp = [r \in Req |-> NoResp]
    /\ txCount = 0
    /\ mined = 0
    /\ sent = {}
    /\ config = DefaultConfig
    /\ hdr = [r \in Req |-> NoHdr]
    /\ \E content \in Documents(MaxDocLen) :
          page = [NoPage EXCEPT !.stage = "file", !.file = content]

\* The process is started with any environment; no request has arrived.
InitFront ==
    /\ pc = [r \in Req |-> "incoming"]
    /\ nonce = [r \in Req |-> -1]
    /\ via = [r \in Req |-> "none"]
    /\ args = [r \in Req |-> NoArgs]
    /\ rpcErr = [r \in Req |-> "none"]
    /\ resp = [r \in Req |-> NoResp]
    /\ txCount = 0
    /\ mined = 0
    /\ sent = {}
    /\ config \in Environments
    /\ hdr = [r \in Req |-> NoHdr]
    /\ page = NoPage

\* An answer after which the handler runs on (a missing `return`).
RespondAndGoOn(r, answer) ==
    /\ resp' = [resp EXCEPT ![r] = answer]
    /\ pc' = pc

\* res.json(...) as the handler's last statement: the request is answered.
Respond(r, answer) ==
    /\ resp' = [resp EXCEPT ![r] = answer]
    /\ pc' = [pc EXCEPT ![r] = "done"]

----------------------------------------------------------------------------
(* The middleware in front of the routes, and GET /health *)

\* The module runs from its first line: without the key the process exits
\* with code 1, with it the module reaches app.listen.
Startup ==
    /\ config.proc = "starting"
    /\ config' = IF KeyMissing(config.key) THEN Exited(config) ELSE Started(config)
    /\ UNCHANGED <<pc, nonce, via, args, rpcErr, resp, txCount, mined, sent, hdr, page>>

\* app.use(express.json()): the body parses and the request goes on, or
\* Express answers 400 itself and no later middleware runs.
BodyParser(r) ==
    /\ config.proc = "listening"
    /\ pc[r] = "incoming"
    /\ \E origin \in OriginHeaders, options \in BOOLEAN, parses \in BOOLEAN :
          /\ hdr' = [hdr EXCEPT ![r] = [NoHdr EXCEPT !.origin = origin,
                                                     !.options = options,
                                                     !.parsed = parses]]
          /\ IF parses
             THEN pc' = [pc EXCEPT ![r] = "cors"] /\ UNCHANGED resp
             ELSE Respond(r, ParserError)
    /\ UNCHANGED <<nonce, via, args, rpcErr, txCount, mined, sent, config, page>>

\* The CORS middleware: the headers are set; an OPTIONS request is answered
\* here, any other goes on to its route.
Cors(r) ==
    /\ pc[r] = "cors"
    /\ hdr' = [hdr EXCEPT ![r].acao = CorsOrigin(hdr[r].origin,
                                                 AllowedOrigins(config.ALLOWED_ORIGINS)),
                          ![r].allowMethods = TRUE]
    /\ IF hdr[r].options
       THEN Respond(r, OptionsOk)
       ELSE pc' = [pc EXCEPT ![r] = "idle"] /\ UNCHANGED resp
    /\ UNCHANGED <<nonce, via, args, rpcErr, txCount, mined, sent, config, page>>

\* GET /health
Health(r) ==
    /\ pc[r] = "idle"
    /\ Respond(r, HealthJson(config))
    /\ UNCHANGED <<nonce, via, args, rpcErr, txCount, mined, sent, config, hdr, page>>

\* GET /
Root(r) ==
    /\ pc[r] = "idle"
    /\ Respond(r, RootJson(config))
    /\ UNCHANGED <<nonce, via, args, rpcErr, txCount, mined, sent, config, hdr, page>>

----------------------------------------------------------------------------
(* GET /skill.md *)

\* A request arrives and is answered.
SkillGet ==
    /\ page.stage = "none"
    /\ \E host \in HostHeaders, forwardedHost \in HostHeaders, url \in Strings(MaxHostLen) :
          page' = [NoPage EXCEPT !.stage = "first", !.host = host,
                                 !.forwardedHost = forwardedHost, !.url = url,
                                 !.served = Document(SkillFile(host, forwardedHost, url))]
    /\ UNCHANGED <<pc, nonce, via, args, rpcErr, resp, txCount, mined, sent, config, hdr>>

\* A second request with the same host, x-forwarded-host and url.
SkillGetAgain ==
    /\ page.stage = "first"
    /\ page' = [page EXCEPT !.stage = "second",
                            !.again = Document(SkillFile(page.host, page.forwardedHost,
                                                         page.url))]
    /\ UNCHANGED <<pc, nonce, via, args, rpcErr, resp, txCount, mined, sent, config, hdr>>

\* GET /skill.md of the route that reads the environment.
SkillGetByEnv ==
    /\ page.stage = "file"
    /\ \E env \in SkillEnvs :
          page' = [page EXCEPT !.stage = "env", !.env = env,
                               !.testnet = IsTestnetEnv(env),
                               !.body = SkillByEnv(page.file, env)]
    /\ UNCHANGED <<pc, nonce, via, args, rpcErr, resp, txCount, mined, sent, config, hdr>>

\* GET /skill.md of the route that reads the host header.
SkillGetByHost ==
    /\ page.stage = "file"
    /\ \E host \in HostHeaders :
          page' = [page EXCEPT !.stage = "host", !.host = host,
                               !.testnet = IsTestnetHost(host),
                               !.body = SkillByHost(page.file, host)]
    /\ UNCHANGED <<pc, nonce, via, args, rpcErr, resp, txCount, mined, sent, config, hdr>>

----------------------------------------------------------------------------
(* POST /verify *)

\* The handler up to `await facilitator.verify(...)`.
ReceiveVerify(r) ==
    /\ pc[r] = "idle"
    /\ \E complete \in BOOLEAN :
          IF complete
          THEN pc' = [pc EXCEPT ![r] = "verify"] /\ UNCHANGED resp
          ELSE Respond(r, BadRequest("verify"))
    /\ UNCHANGED <<nonce, via, args, rpcErr, txCount, mined, sent, config, hdr, page>>

\* facilitator.verify resolves: res.json(response).
VerifyReturns(r) ==
    /\ pc[r] = "verify"
    /\ \E valid \in BOOLEAN : Respond(r, VerifyJson(valid))
    /\ UNCHANGED <<nonce, via, args, rpcErr, txCount, mined, sent, config, hdr, page>>

\* An RPC read of facilitator.verify fails: the library lets the error
\* through (the catch block answers 500) or reports the payment invalid.
VerifyRpcFails(r) ==
    /\ pc[r] = "verify"
    /\ rpcErr' = [rpcErr EXCEPT ![r] = "verify"]
    /\ \E thrown \in BOOLEAN :
          IF thrown
          THEN /\ args' = [args EXCEPT ![r].threw = TRUE, ![r].err = RpcError]
               /\ Respond(r, ServerError("verify", RpcError))
          ELSE /\ Respond(r, VerifyJson(FALSE))
               /\ UNCHANGED args
    /\ UNCHANGED <<nonce, via, txCount, mined, sent, config, hdr, page>>

----------------------------------------------------------------------------
(* POST /settle *)

\* A handler that looks at the pending nonce before it checks the body.
ReceiveSettleLate(r) ==
    /\ pc[r] = "idle"
    /\ nonce' = [nonce EXCEPT ![r] = SignerNonce(txCount, mined)]
    /\ \E complete \in BOOLEAN :
          IF complete
          THEN pc' = [pc EXCEPT ![r] = "settle"] /\ UNCHANGED resp
          ELSE Respond(r, BadRequest("settle"))
    /\ UNCHANGED <<via, args, rpcErr, txCount, mined, sent, config, hdr, page>>

\* The handler up to `await facilitator.settle(...)`.
ReceiveSettle(r) ==
    /\ pc[r] = "idle"
    /\ \E complete \in BOOLEAN :
          IF complete
          THEN pc' = [pc EXCEPT ![r] = "settle"] /\ UNCHANGED resp
          ELSE Respond(r, BadRequest("settle"))
    /\ UNCHANGED <<nonce, via, args, rpcErr, txCount, mined, sent, config, hdr, page>>

\* The catch block answers an error thrown in the try block;
\* paymentPayload.network is read for an aborted settlement only.
Catch(r, err, base) ==
    \E network \in Networks :
        /\ IsAborted(err) \/ network = ""
        /\ args' = [args EXCEPT ![r] = [base EXCEPT !.threw = TRUE, !.err = err,
                                                    !.network = network]]
        /\ Respond(r, SettleCatch(err, network))

\* The locals of /settle and forwardToSeller once the amounts are computed.
ForwardArgs(g, to, fee, feeBps, success) ==
    [NoArgs EXCEPT !.seller = TRUE, !.gross = IF success THEN g ELSE 0,
                   !.payTo = to, !.fee_bps = fee,
                   !.amount = g, !.feeBps = feeBps,
                   !.feeAmount = FeeAmount(g, feeBps),
                   !.sellerAmount = SellerAmount(g, feeBps),
                   !.settled = success]

\* facilitator.settle has resolved with `success`, the payment (if any) gone
\* to `to`: the handler runs from line 312 to its next await, which is the
\* walletClient.writeContract of forwardToSeller, or to its answer.
AfterSettle(r, success, to) ==
    \E g \in SampleGross, seller \in BOOLEAN :
        LET paid == IF success
                    THEN [NoArgs EXCEPT !.gross = g, !.payTo = to, !.settled = TRUE,
                                        !.seller = seller]
                    ELSE args[r]
        IN  IF ~ShouldForward(success, seller)
            THEN /\ Respond(r, SettleJson(success, NoForward))
                 /\ args' = [args EXCEPT ![r] = paid]
            ELSE \E fee \in SampleFees, amt \in {AmtInt(g), AmtBad} :
                   LET feeBps == EffectiveFeeBps(fee)
                   IN  IF amt.kind = "bad" \/ BigIntThrows(feeBps)
                       THEN \* BigInt(maxAmountRequired) throws at line 316, or
                            \* BigInt(feeBps) at 115 (caught) and again at 332
                            Catch(r, Thrown(TRUE, <<"X">>), paid)
                       ELSE /\ pc' = [pc EXCEPT ![r] = "forward"]
                            /\ args' = [args EXCEPT ![r] =
                                          ForwardArgs(g, to, fee, feeBps.v, success)]
                            /\ UNCHANGED resp

\* facilitator.settle resolves with success = false before any write (the
\* payment does not verify).
SettleRefuses(r) ==
    /\ pc[r] = "settle"
    /\ AfterSettle(r, FALSE, "none")
    /\ UNCHANGED <<nonce, via, rpcErr, txCount, mined, sent, config, hdr, page>>

\* facilitator.settle throws before any write: the catch block answers.
SettleThrows(r, errors) ==
    /\ pc[r] = "settle"
    /\ \E err \in errors : Catch(r, err, args[r])
    /\ UNCHANGED <<nonce, via, rpcErr, txCount, mined, sent, config, hdr, page>>

\* evmSigner.writeContract / sendTransaction, first half: the pending nonce
\* is read, or the read fails and the signer's promise rejects.
SignerReadNonce(r) ==
    /\ pc[r] = "settle"
    /\ \E how \in {"writeContract", "sendTransaction"}, ok \in BOOLEAN :
          IF ok
          THEN /\ nonce' = [nonce EXCEPT ![r] = SignerNonce(txCount, mined)]
               /\ via' = [via EXCEPT ![r] = how]
               /\ pc' = [pc EXCEPT ![r] = "signerSend"]
               /\ UNCHANGED rpcErr
          ELSE /\ rpcErr' = [rpcErr EXCEPT ![r] = "nonce"]
               /\ pc' = [pc EXCEPT ![r] = "signerFailed"]
               /\ UNCHANGED <<nonce, via>>
    /\ UNCHANGED <<args, resp, txCount, mined, sent, config, hdr, page>>

\* evmSigner.writeContract / sendTransaction, second half: the write goes
\* out with the nonce read before; the node takes it, or the call fails.
SignerSend(r) ==
    /\ pc[r] = "signerSend"
    /\ \E rpcOk \in BOOLEAN :
          LET fate == Fate(rpcOk, nonce[r])
              ok == fate = "accepted"
          IN  /\ sent' = sent \cup {Write(r, "signer", nonce[r], SignerPassesNonce, fate, 0,
                                         "asset")}
              /\ txCount' = IF ok THEN txCount + 1 ELSE txCount
              /\ pc' = [pc EXCEPT ![r] = IF ok THEN "receipt" ELSE "signerFailed"]
              /\ rpcErr' = [rpcErr EXCEPT ![r] = IF ok THEN @ ELSE "send"]
              /\ nonce' = [nonce EXCEPT ![r] = IF ok THEN @ ELSE -1]
    /\ via' = [via EXCEPT ![r] = "none"]
    /\ UNCHANGED <<args, resp, mined, config, hdr, page>>

\* The signer's promise rejected inside facilitator.settle: the library
\* resolves with success = false or lets the error through.
SignerFailed(r) ==
    /\ pc[r] = "signerFailed"
    /\ \/ Catch(r, RpcError, args[r])
       \/ AfterSettle(r, FALSE, "none")
    /\ UNCHANGED <<nonce, via, rpcErr, txCount, mined, sent, config, hdr, page>>

\* The chain includes the hot wallet's next pending transaction in a block.
Mine ==
    /\ mined < txCount
    /\ mined' = mined + 1
    /\ UNCHANGED <<pc, nonce, via, args, rpcErr, resp, txCount, sent, config, hdr, page>>

\* waitForTransactionReceipt resolves and facilitator.settle with it: the
\* settlement transaction went through (the buyer's USDC is with payTo) or
\* reverted (success = false).
SettleReceipt(r) ==
    /\ pc[r] = "receipt"
    /\ nonce[r] < mined
    /\ \/ AfterSettle(r, FALSE, "none")
       \/ \E to \in PayTos : AfterSettle(r, TRUE, to)
    /\ nonce' = [nonce EXCEPT ![r] = -1]
    /\ UNCHANGED <<via, rpcErr, txCount, mined, sent, config, hdr, page>>

\* walletClient.writeContract of forwardToSeller: no nonce is passed, the
\* client assigns the account's next one; the node takes the transfer or
\* the call fails.
ForwardWrite(r, ok) ==
    /\ sent' = sent \cup {Write(r, "forward", txCount, ForwardPassesNonce,
                                 Fate(ok, txCount), args[r].sellerAmount,
                                 ForwardContract(config))}
    /\ txCount' = IF ok THEN txCount + 1 ELSE txCount
    /\ rpcErr' = [rpcErr EXCEPT ![r] = IF ok THEN @ ELSE "forward"]
    /\ args' = [args EXCEPT ![r].forwardOk = ok]

\* A forward that is tried again until the transfer is taken.
ForwardSendRetrying(r) ==
    /\ pc[r] = "forward"
    /\ \E ok \in BOOLEAN :
          /\ ok => ~TransferRejects(args[r].sellerAmount)
          /\ ForwardWrite(r, ok)
          /\ IF ok
             THEN Respond(r, ForwardAnswer(args[r].amount, args[r].feeBps, ok))
             ELSE UNCHANGED <<pc, resp>>
    /\ UNCHANGED <<nonce, via, mined, config, hdr, page>>

\* forwardToSeller returns and /settle answers.
ForwardSend(r) ==
    /\ pc[r] = "forward"
    /\ \E ok \in BOOLEAN :
          /\ ok => ~TransferRejects(args[r].sellerAmount)
          /\ ForwardWrite(r, ok)
          /\ Respond(r, ForwardAnswer(args[r].amount, args[r].feeBps, ok))
    /\ UNCHANGED <<nonce, via, mined, config, hdr, page>>

----------------------------------------------------------------------------
(* forwardToSeller called directly *)

DirectCall(r) ==
    /\ pc[r] = "idle"
    /\ \E g \in GrossAmounts, f \in FeeRange :
          args' = [args EXCEPT ![r] = ForwardArgs(g, "facilitator", FeeInt(f), f, TRUE)]
    /\ pc' = [pc EXCEPT ![r] = "called"]
    /\ UNCHANGED <<nonce, via, rpcErr, resp, txCount, mined, sent, config, hdr, page>>

DirectReturn(r) ==
    /\ pc[r] = "called"
    /\ \E ok \in BOOLEAN :
          /\ ok => ~TransferRejects(args[r].sellerAmount)
          /\ ForwardWrite(r, ok)
    /\ pc' = [pc EXCEPT ![r] = "returned"]
    /\ UNCHANGED <<nonce, via, resp, mined, config, hdr, page>>

\* Lines 329-340 of /settle on the result of the call: the forward block is
\* built and the response sent.
DirectAnswer(r) ==
    /\ pc[r] = "returned"
    /\ Respond(r, ForwardAnswer(args[r].amount, args[r].feeBps, args[r].forwardOk))
    /\ UNCHANGED <<nonce, via, args, rpcErr, txCount, mined, sent, config, hdr, page>>

----------------------------------------------------------------------------
(* Specifications *)

\* No other request is being served.
Quiet(r) == \A q \in Req \ {r} : pc[q] \in {"idle", "done"}

Handle(r) ==
    \/ VerifyReturns(r)
    \/ VerifyRpcFails(r)
    \/ SettleRefuses(r)
    \/ SettleThrows(r, SampleThrown)
    \/ SignerReadNonce(r)
    \/ SignerSend(r)
    \/ SignerFailed(r)
    \/ SettleReceipt(r)
    \/ ForwardSend(r)

\* Requests arrive at any time and are served concurrently.
Next ==
    \/ \E r \in Req : ReceiveVerify(r)
    \/ \E r \in Req : ReceiveSettle(r)
    \/ \E r \in Req : Handle(r)
    \/ Mine

Spec == Init /\ [][Next]_vars

\* Requests are served strictly one after another.
NextSeq ==
    \/ \E r \in Req : Quiet(r) /\ ReceiveVerify(r)
    \/ \E r \in Req : Quiet(r) /\ ReceiveSettle(r)
    \/ \E r \in Req : Handle(r)
    \/ Mine

SpecSeq == Init /\ [][NextSeq]_vars

\* Every awaited call returns or throws, and the chain goes on producing
\* blocks.
Fairness == WF_vars(\E r \in Req : Handle(r)) /\ WF_vars(Mine)

SpecLive == Init /\ [][NextSeq]_vars /\ Fairness

\* forwardToSeller is called with every gross amount and fee.
NextFee == DirectCall(1) \/ DirectReturn(1)

SpecFee == Init /\ [][NextFee]_vars

\* The same calls, each followed by the forward block of the response.
NextSplit == DirectCall(1) \/ DirectReturn(1) \/ DirectAnswer(1)

SpecSplit == Init /\ [][NextSplit]_vars

\* One /settle request whose facilitator.settle throws any error.
NextCatch == ReceiveSettle(1) \/ SettleThrows(1, AllThrown)

SpecCatch == Init /\ [][NextCatch]_vars

\* The process from its start, and one request from the socket to its
\* answer, under every environment.
NextFront ==
    \/ Startup
    \/ BodyParser(1)
    \/ Cors(1)
    \/ Health(1)
    \/ Root(1)
    \/ ReceiveVerify(1)
    \/ ReceiveSettle(1)
    \/ Handle(1)
    \/ Mine

SpecFront == InitFront /\ [][NextFront]_vars

\* The /skill.md route serving a request, and the same request again.
NextSkill == SkillGet \/ SkillGetAgain

SpecSkill == Init /\ [][NextSkill]_vars

\* One templated request for /skill.md, for every content of the file.
NextTemplate == SkillGetByEnv \/ SkillGetByHost

SpecTemplate == InitTemplate /\ [][NextTemplate]_vars

----------------------------------------------------------------------------
(* Properties *)

Done(r) == pc[r] = "done"
ForwardWrites(r) == {w \in WritesOf(r) : w.from = "forward"}
SignerWrites(r) == {w \in WritesOf(r) : w.from = "signer"}

\* C1: forwardToSeller called with gross amount G >= 0 and fee F in 0..10000
\* computes feeAmount = floor(G * F / 10000) and sellerAmount = G - feeAmount,
\* so the two add up to G; the transfer it submits is for sellerAmount.
FeeSplitExact ==
    \A r \in Req :
        pc[r] \in {"called", "returned"} =>
            LET a == args[r]
            IN  /\ a.feeAmount = (a.amount * a.feeBps) \div 10000
                /\ a.sellerAmount = a.amount - a.feeAmount
                /\ a.sellerAmount + a.feeAmount = a.amount
                /\ \A w \in ForwardWrites(r) : w.amount = a.amount - (a.amount * a.feeBps) \div 10000

\* A call has returned whose exact fee is no whole number of micro-USDC.
FeeSplitRounds ==
    \E r \in Req :
        /\ pc[r] = "returned"
        /\ (args[r].amount * args[r].feeBps) % 10000 # 0
        /\ args[r].feeAmount > 0
        /\ ForwardWrites(r) # {}

\* C2: the writes that reach the node from concurrently served requests
\* carry pairwise distinct nonces.
NoncesDistinct ==
    \A w1, w2 \in Submitted : w1 # w2 => w1.nonce # w2.nonce

\* C3: a /settle request with extra.fee_bps = 0 forwards the whole gross
\* amount to the seller, and the fee is 0.
ZeroFeeForwardsAll ==
    \A r \in Req :
        args[r].fee_bps = FeeInt(0) =>
            /\ \A w \in ForwardWrites(r) : w.amount = args[r].gross
            /\ (Done(r) /\ resp[r].forward.present =>
                    /\ resp[r].forward.fee_micro = 0
                    /\ resp[r].forward.seller_micro = args[r].gross)

\* C4: every write the facilitator hands to walletClient carries a nonce
\* passed explicitly from a read of the pending transaction count.
WritesCarryPendingNonce ==
    \A w \in sent : w.explicit

\* C5: a /settle request whose settlement succeeded and whose forwarding
\* transfer failed is answered 200 with success = true and the settlement's
\* transaction; nothing else is written for it (no reversal, no retry).
ForwardFailureStillSuccess ==
    \A r \in Req :
        rpcErr[r] = "forward" =>
            /\ Done(r)
            /\ resp[r].status = 200
            /\ resp[r].success = "true"
            /\ resp[r].txHash
            /\ args[r].settled
            /\ Cardinality(WritesOf(r)) = 2
            /\ \E w \in SignerWrites(r) : w.fate = "accepted"

\* A settled request whose forwarding transfer failed has been answered.
ForwardFailed ==
    \E r \in Req :
        /\ rpcErr[r] = "forward"
        /\ Done(r)
        /\ \E w \in ForwardWrites(r) : w.fate = "rpcError"

\* C6: a forwarding transfer is written only for a request whose settlement
\* transaction is in a block with success = true and whose requirements
\* carry seller_wallet; none for a request answered 400 or 500 or with
\* success = false.
ForwardOnlyAfterSettle ==
    /\ \A w \in sent :
          w.from = "forward" =>
              /\ args[w.req].settled
              /\ args[w.req].seller
              /\ \E s \in SignerWrites(w.req) :
                    s.fate = "accepted" /\ s.nonce < mined /\ s.nonce < w.nonce
    /\ \A r \in Req :
          (resp[r].status \in {400, 500} \/ resp[r].success = "false") =>
              ForwardWrites(r) = {}

\* One request has forwarded and another, not settled, has been answered
\* without a forward.
ForwardAndRefusal ==
    \E r, q \in Req :
        /\ ForwardWrites(r) # {}
        /\ Done(q) /\ resp[q].success = "false" /\ resp[q].status = 200

\* The buyer's USDC that reached the facilitator's wallet for a request, and
\* what the wallet has passed on of it.
Received(r) == IF args[r].settled /\ args[r].payTo = "facilitator" THEN args[r].gross ELSE 0
Forwarded(r) ==
    LET ws == {w \in ForwardWrites(r) : w.fate = "accepted"}
    IN  IF ws = {} THEN 0 ELSE (CHOOSE w \in ws : TRUE).amount

\* C7: no USDC paid by a buyer rests in the facilitator's wallet, in any
\* state.
NoCustody ==
    \A r \in Req : Received(r) - Forwarded(r) <= 0

\* C8: with requests served one after another, a write through the signer
\* is never refused for its nonce, and its nonce is above the nonce of
\* every transaction that reached the node before, confirmed or not.
SequentialNoncesRise ==
    [][\A w \in sent' \ sent :
          w.from = "signer" =>
              /\ w.fate # "nonceTooLow"
              /\ \A e \in Submitted : w.nonce > e.nonce]_vars

\* The node holds a signer write while the transaction before it is still
\* unconfirmed.
SignerWriteOverPending ==
    \E w \in Accepted :
        /\ w.from = "signer"
        /\ w.nonce > 0
        /\ mined < w.nonce

\* The message with the prefix "Settlement aborted: " removed, if it
\* starts with it.
StripPrefix(msg) ==
    IF Len(msg) >= 2 /\ msg[1] = "SA" /\ msg[2] = "SP"
    THEN SubSeq(msg, 3, Len(msg)) ELSE msg

\* The message without its first "Settlement aborted: ", wherever it is.
FirstRemoved(msg, reason) ==
    LET Hit(i) == msg[i] = "SA" /\ msg[i + 1] = "SP"
        idx == 1..(Len(msg) - 1)
    IN  IF \E i \in idx : Hit(i)
        THEN \E i \in idx :
                /\ Hit(i)
                /\ \A k \in 1..(i - 1) : ~Hit(k)
                /\ Len(reason) = Len(msg) - 2
                /\ \A k \in 1..Len(reason) :
                      reason[k] = IF k < i THEN msg[k] ELSE msg[k + 2]
        ELSE reason = msg

Unknown(network) == IF network = "" THEN "unknown" ELSE network

\* C9 as stated: an Error containing "Settlement aborted:" thrown by
\* facilitator.settle is answered with success = false, errorReason = the
\* message with the prefix removed, network = the payload's or "unknown";
\* any other thrown value with 500 and an error.
AbortedPrefixRemoved ==
    \A r \in Req :
        (Done(r) /\ args[r].threw /\ resp[r].route = "settle") =>
            LET e == args[r].err
            IN  IF e.isError /\ \E i \in 1..Len(e.message) : e.message[i] = "SA"
                THEN /\ resp[r].status = 200
                     /\ resp[r].success = "false"
                     /\ resp[r].errorReason = StripPrefix(e.message)
                     /\ resp[r].network = Unknown(args[r].network)
                ELSE /\ resp[r].status = 500
                     /\ resp[r].error = IF e.isError THEN e.message ELSE UnknownError

\* C9 as amended: errorReason is the message with the first occurrence of
\* "Settlement aborted: " removed, wherever it stands (unchanged without one).
AbortedFirstOccurrenceRemoved ==
    \A r \in Req :
        (Done(r) /\ args[r].threw /\ resp[r].route = "settle") =>
            LET e == args[r].err
            IN  IF e.isError /\ \E i \in 1..Len(e.message) : e.message[i] = "SA"
                THEN /\ resp[r].status = 200
                     /\ resp[r].success = "false"
                     /\ FirstRemoved(e.message, resp[r].errorReason)
                     /\ resp[r].network = Unknown(args[r].network)
                ELSE /\ resp[r].status = 500
                     /\ resp[r].error = IF e.isError THEN e.message ELSE UnknownError

\* An aborted settlement has been answered whose message carries the text
\* "Settlement aborted: " after its start: it was removed from the middle.
AbortedInsideMessage ==
    \E r \in Req :
        /\ Done(r) /\ args[r].threw /\ args[r].err.isError
        /\ args[r].err.message = <<"X", "SA", "SP", "X">>
        /\ resp[r].errorReason = <<"X", "X">>
        /\ resp[r].network = "eip155:8453"

\* C10 as stated: a request with a failed RPC call is answered 500.
RpcFailureIs500 ==
    \A r \in Req :
        (Done(r) /\ (rpcErr[r] = "forward" \/ (rpcErr[r] # "none" /\ args[r].threw)))
            => resp[r].status = 500

\* C10 as amended: an RPC failure that facilitator.verify or
\* facilitator.settle lets through as an exception is answered 500; a
\* failed forwarding transfer is answered 200 with forward_success = false;
\* the failed call is the request's last (no retry).
RpcFailureSurfacing ==
    \A r \in Req :
        Done(r) =>
            /\ (rpcErr[r] \in {"verify", "nonce", "send"} /\ args[r].threw) =>
                    /\ resp[r].status = 500
                    /\ resp[r].error = RpcError.message
            /\ rpcErr[r] = "forward" =>
                    /\ resp[r].status = 200
                    /\ resp[r].success = "true"
                    /\ resp[r].forward.present
                    /\ ~resp[r].forward.forward_success
                    /\ \A w \in ForwardWrites(r) : w.fate = "rpcError"
            /\ rpcErr[r] \in {"verify", "nonce"} => WritesOf(r) = {}
            /\ rpcErr[r] = "send" =>
                    /\ Cardinality(WritesOf(r)) = 1
                    /\ \A w \in WritesOf(r) : w.from = "signer" /\ w.fate # "accepted"
            /\ Cardinality(SignerWrites(r)) <= 1
            /\ Cardinality(ForwardWrites(r)) <= 1

\* One request's settlement write failed and surfaced as 500, another's
\* forwarding transfer failed and was answered 200.
RpcFailuresBothKinds ==
    \E r, q \in Req :
        /\ Done(r) /\ rpcErr[r] = "send" /\ args[r].threw /\ resp[r].status = 500
        /\ Done(q) /\ rpcErr[q] = "forward" /\ resp[q].status = 200

\* The buyer of a request has paid and its forwarding transfer has failed:
\* the seller has nothing.
PaidSellerUnpaid(r) ==
    /\ args[r].settled
    /\ rpcErr[r] = "forward"
    /\ \A w \in ForwardWrites(r) : w.fate # "accepted"

\* C11: a /settle request makes at most one forwarding attempt; once the
\* attempt has failed no further write (no second transfer, no refund) is
\* ever made for the request, and "buyer paid, seller unpaid" holds in
\* every later state.
ForwardFailureIsFinal ==
    /\ [](\A r \in Req : Cardinality(ForwardWrites(r)) <= 1)
    /\ [][\A r \in Req :
            PaidSellerUnpaid(r) =>
                /\ (PaidSellerUnpaid(r))'
                /\ (WritesOf(r))' = WritesOf(r)
                /\ pc'[r] = "done"]_vars

\* A forward has failed and, after it, another request's forward was taken
\* and confirmed: the failed one is still the request's only transfer.
ForwardFailedAndLeftBehind ==
    \E r, q \in Req :
        /\ r # q
        /\ PaidSellerUnpaid(r) /\ Done(r) /\ Done(q)
        /\ \E f \in ForwardWrites(r), w \in ForwardWrites(q) :
              /\ f.fate = "rpcError"
              /\ w.fate = "accepted"
              /\ f.nonce < w.nonce
              /\ w.nonce < mined

\* Two answered /settle requests with the same amounts, the forward of the
\* first failed and that of the second taken.
ForwardPair(r, q) ==
    /\ Done(r) /\ Done(q)
    /\ resp[r].forward.present /\ resp[q].forward.present
    /\ args[r].amount = args[q].amount /\ args[r].feeBps = args[q].feeBps
    /\ rpcErr[r] = "forward"
    /\ \E w \in ForwardWrites(q) : w.fate = "accepted"

\* C12 as stated: the response of a settlement whose forward failed has no
\* field that tells it from the response of one whose forward succeeded.
ForwardFailureHidden ==
    \A r, q \in Req : ForwardPair(r, q) => resp[r] = resp[q]

\* C12 as amended: the two responses agree on the status, on success, on
\* the transaction and on the amounts, and differ in forward_success and
\* forward_tx, which tell the failed forward from the succeeded one.
ForwardFailureInForwardBlockOnly ==
    \A r, q \in Req :
        ForwardPair(r, q) =>
            /\ resp[r].status = 200 /\ resp[r].success = "true"
            /\ [resp[r] EXCEPT !.forward.forward_success = TRUE,
                               !.forward.forward_tx = TRUE] = resp[q]
            /\ ~resp[r].forward.forward_success
            /\ ~resp[r].forward.forward_tx
            /\ resp[q].forward.forward_success
            /\ resp[q].forward.forward_tx

\* Both kinds of response have been sent for the same amounts.
ForwardFailedBesideForwarded ==
    \E r, q \in Req : r # q /\ ForwardPair(r, q) /\ resp[r].forward.seller_micro = 97

\* C13: GET /health answers 200 with status "ok", the network and the USDC
\* address of the configured network and the address of the configured
\* key; the step that answers it makes no write and no RPC call and
\* changes nothing but the request's own answer.
HealthAnswersFromConfig ==
    /\ [](\A r \in Req :
            resp[r].route = "health" =>
                /\ resp[r].status = 200
                /\ resp[r].state = "ok"
                /\ resp[r].network = IF config.USE_TESTNET \in {"true", "TRUE", "True"}
                                     THEN "eip155:84532" ELSE "eip155:8453"
                /\ resp[r].usdc = IF config.USE_TESTNET \in {"true", "TRUE", "True"}
                                  THEN "0x036CbD53842c5426634e7929541eC2318f3dCF7e"
                                  ELSE "0x833589fCD6eDb6E08f4c7C32D4f71b54bdA02913"
                /\ resp[r].wallet = AccountAddress(config.key)
                /\ WritesOf(r) = {}
                /\ rpcErr[r] = "none")
    /\ [][\A r \in Req :
            (pc[r] = "idle" /\ resp'[r].route = "health") =>
                /\ pc'[r] = "done"
                /\ UNCHANGED <<nonce, via, args, rpcErr, txCount, mined, sent,
                               config, hdr, page>>
                /\ \A q \in Req \ {r} : pc'[q] = pc[q] /\ resp'[q] = resp[q]]_vars

\* A process started with USE_TESTNET=TRUE and the second key has answered
\* /health for the testnet.
HealthOnTestnet ==
    \E r \in Req :
        /\ Done(r) /\ resp[r].route = "health"
        /\ config.USE_TESTNET = "TRUE" /\ config.key = "key2"
        /\ resp[r].network = "eip155:84532"
        /\ resp[r].wallet = "0xWalletOfKey2"

\* The request's Origin header is an entry of the ALLOWED_ORIGINS list.
OriginListed(r) ==
    /\ hdr[r].origin.present
    /\ Includes(AllowedOrigins(config.ALLOWED_ORIGINS), hdr[r].origin.value)

\* C14 as stated: a response carries Access-Control-Allow-Origin if and
\* only if the request's Origin is an entry of the list, and then the
\* header is that origin.
CorsIffListed ==
    \A r \in Req :
        Done(r) =>
            /\ hdr[r].acao.present <=> OriginListed(r)
            /\ hdr[r].acao.present => hdr[r].acao = hdr[r].origin

\* C14 as amended: the header is set if and only if the request passed the
\* body parser and its Origin is non-empty and an entry of the list split
\* at the commas, untrimmed; then it is that origin; no response carries an
\* origin that is no entry of the list.
CorsListedAfterParser ==
    \A r \in Req :
        /\ Done(r) =>
              (hdr[r].acao.present <=>
                  (hdr[r].parsed /\ hdr[r].origin.value # <<>> /\ OriginListed(r)))
        /\ hdr[r].acao.present =>
              /\ hdr[r].acao = hdr[r].origin
              /\ \E i \in 1..Len(AllowedOrigins(config.ALLOWED_ORIGINS)) :
                    AllowedOrigins(config.ALLOWED_ORIGINS)[i] = hdr[r].acao.value
        /\ (Done(r) /\ hdr[r].origin = Header(<<Moltmart>>)
              /\ config.ALLOWED_ORIGINS = <<Elsewhere, Comma, Blank, Moltmart>>) =>
              ~hdr[r].acao.present

\* A /settle answer carries the second origin of a configured list, and
\* the request had passed the parser.
CorsHeaderOnSettle ==
    \E r \in Req :
        /\ Done(r) /\ resp[r].route = "settle" /\ hdr[r].parsed
        /\ config.ALLOWED_ORIGINS = <<Moltmart, Comma, Comma, Localhost>>
        /\ hdr[r].acao = Header(<<Localhost>>)

DefaultSplitIs95To5 ==
    \A r \in Req :
        (args[r].seller /\ args[r].fee_bps = FeeAbsent) =>
            /\ \A w \in ForwardWrites(r) : w.amount * 100 = args[r].gross * 95
            /\ (Done(r) /\ resp[r].forward.present) =>
                  resp[r].forward.fee_micro * 100 = args[r].gross * 5

\* The file expected for a request: the testnet file exactly when one of
\* the three strings contains 'testnet'.
HasTestnet(str) == \E i \in 1..(Len(str) - 1) : <<str[i], str[i + 1]>> = <<"test", "net">>
ExpectedSkillFile ==
    IF \/ (page.host.present /\ HasTestnet(page.host.value))
       \/ (page.forwardedHost.present /\ HasTestnet(page.forwardedHost.value))
       \/ HasTestnet(page.url)
    THEN "skill-testnet.md" ELSE "skill-production.md"

\* C17: /skill.md serves the testnet file if and only if the host, the
\* x-forwarded-host or the url contains 'testnet', the production file
\* otherwise; a second request with the same three values is served the
\* same document.
SkillFileFromRequest ==
    /\ page.stage # "none" => page.served = <<"public", ExpectedSkillFile>>
    /\ page.stage = "second" => page.again = page.served

\* A request whose x-forwarded-host alone contains 'testnet' was served
\* the testnet file twice.
SkillTestnetByForwardedHost ==
    /\ page.stage = "second"
    /\ page.host = Header(<<"x">>)
    /\ page.forwardedHost = Header(<<"test", "net">>)
    /\ page.url = <<"net", "test">>
    /\ page.again = <<"public", "skill-testnet.md">>

\* C18: a request whose settlement succeeded is answered 200 with
\* success = true, whatever its fee_bps and maxAmountRequired.
SettledIsAnsweredSuccess ==
    \A r \in Req :
        (Done(r) /\ args[r].settled) =>
            resp[r].status = 200 /\ resp[r].success = "true"

\* C19: whatever fee_bps a request carries, the amount transferred to the
\* seller is at least 0 and at most the gross amount.
SellerAmountWithinGross ==
    \A r \in Req : \A w \in ForwardWrites(r) :
        w.fate = "accepted" => (0 <= w.amount /\ w.amount <= args[r].gross)

\* C20: for each request (here: each one with a fee within 0..10000) the
\* USDC transferred out of the wallet to the seller is at most the USDC its
\* settlement brought into the wallet, whoever payTo is.
ForwardWithinReceived ==
    \A r \in Req :
        args[r].feeBps \in 0..BpsDenominator => Forwarded(r) <= Received(r)

\* C21: a /settle request whose settlement succeeded and whose requirements
\* carry seller_wallet has, once answered, made a forwarding attempt and
\* been answered with a forward block.
SettledSellerIsForwarded ==
    \A r \in Req :
        (Done(r) /\ args[r].settled /\ args[r].seller) =>
            /\ ForwardWrites(r) # {}
            /\ resp[r].forward.present

\* C22: a response reports forward_success = true only when the forwarding
\* transfer is in a block (the seller's balance has risen).
ForwardSuccessIsConfirmed ==
    \A r \in Req :
        (Done(r) /\ resp[r].forward.forward_success) =>
            \E w \in ForwardWrites(r) : w.fate = "accepted" /\ w.nonce < mined

\* C23: an answered /settle request carries a forward block if and only if
\* its settlement succeeded and seller_wallet was present; in the block
\* forward_tx is set if and only if forward_success is true.
ForwardBlockIffSettledSeller ==
    \A r \in Req :
        (Done(r) /\ resp[r].route = "settle") =>
            /\ resp[r].forward.present <=> (args[r].settled /\ args[r].seller)
            /\ resp[r].forward.present =>
                  (resp[r].forward.forward_tx <=> resp[r].forward.forward_success)

\* C24: the amounts reported in the forward block are the amounts used:
\* seller_amount is the sellerAmount passed to the transfer and fee_amount
\* is the feeAmount behind it.
ReportedSplitIsUsedSplit ==
    \A r \in Req :
        (Done(r) /\ resp[r].forward.present) =>
            /\ resp[r].forward.seller_micro = args[r].sellerAmount
            /\ resp[r].forward.fee_micro = args[r].feeAmount
            /\ resp[r].forward.seller_micro + resp[r].forward.fee_micro = args[r].amount
            /\ \A w \in ForwardWrites(r) : w.amount = resp[r].forward.seller_micro

\* A response reports a split whose exact fee is no whole number of
\* micro-USDC, for a transfer that was taken.
ReportedSplitRounds ==
    \E r \in Req :
        /\ Done(r) /\ resp[r].forward.forward_success
        /\ (args[r].amount * args[r].feeBps) % 10000 # 0
        /\ resp[r].forward.fee_micro > 0
        /\ \E w \in ForwardWrites(r) : w.fate = "accepted" /\ w.amount > 0

\* C25: for G >= 0 and F in 0..10000 the fee is the floor of the exact fee,
\* feeAmount * 10000 <= G * F < (feeAmount + 1) * 10000, the seller gets
\* the ceiling of the exact remainder, and 0 <= sellerAmount <= G.
DustGoesToSeller ==
    \A r \in Req :
        pc[r] \in {"called", "returned"} =>
            LET G == args[r].amount
                F == args[r].feeBps
            IN  /\ args[r].feeAmount * 10000 <= G * F
                /\ G * F < (args[r].feeAmount + 1) * 10000
                /\ args[r].sellerAmount = (G * (10000 - F) + 9999) \div 10000
                /\ 0 <= args[r].sellerAmount /\ args[r].sellerAmount <= G
                /\ \A w \in ForwardWrites(r) : 0 <= w.amount /\ w.amount <= G

\* A transfer was taken that carries more than the exact remainder.
DustKeptBySeller ==
    \E r \in Req :
        /\ pc[r] = "returned"
        /\ args[r].sellerAmount * 10000 > args[r].amount * (10000 - args[r].feeBps)
        /\ \E w \in ForwardWrites(r) : w.fate = "accepted" /\ w.amount = args[r].sellerAmount

\* C26: a /verify or /settle request answered 400 for a missing field has
\* had no other effect: the answer is given straight from the start of the
\* handler, nothing was written or read for the request, and the answering
\* step leaves the chain and the write log as they were.
MissingFieldHasNoEffect ==
    /\ [](\A r \in Req :
            (resp[r].status = 400 /\ resp[r].route \in {"verify", "settle"}) =>
                /\ Done(r)
                /\ WritesOf(r) = {}
                /\ rpcErr[r] = "none"
                /\ nonce[r] = -1 /\ via[r] = "none"
                /\ args[r] = NoArgs)
    /\ [][\A r \in Req :
            (resp[r] = NoResp /\ resp'[r].status = 400) =>
                /\ pc[r] = "idle"
                /\ UNCHANGED <<nonce, via, args, rpcErr, txCount, mined, sent>>]_vars

\* A /settle request was answered 400 while the other request held an
\* unconfirmed settlement transaction.
MissingFieldBesideSettlement ==
    \E r, q \in Req :
        /\ resp[r].status = 400 /\ resp[r].route = "settle"
        /\ pc[q] = "receipt" /\ mined < txCount

\* The locations of a /settle handler that has passed its check.
InSettle(r) == pc[r] \in {"settle", "signerSend", "signerFailed", "receipt", "forward"}

\* C27: a /settle request is answered exactly once: a handler past its
\* check always comes to an answer, an answer is 200, 400 or 500, and
\* once sent it is never followed by another.
SettleAnsweredOnce ==
    /\ \A r \in Req : InSettle(r) ~> Done(r)
    /\ [](\A r \in Req :
            /\ Done(r) <=> resp[r] # NoResp
            /\ Done(r) => resp[r].status \in {200, 400, 500})
    /\ [][\A r \in Req :
            resp[r] # NoResp => (resp'[r] = resp[r] /\ pc'[r] = "done")]_vars

\* Two /settle requests have been answered, one with 500 and one with a
\* forward block.
SettleAnsweredBothWays ==
    \E r, q \in Req :
        /\ Done(r) /\ resp[r].route = "settle" /\ resp[r].status = 500
        /\ Done(q) /\ resp[q].route = "settle" /\ resp[q].forward.present

\* The network and the USDC contract that belong to the environment.
NetworkPair ==
    IF config.USE_TESTNET \in {"true", "TRUE", "True"}
    THEN <<"eip155:84532", "0x036CbD53842c5426634e7929541eC2318f3dCF7e">>
    ELSE <<"eip155:8453", "0x833589fCD6eDb6E08f4c7C32D4f71b54bdA02913">>

\* C28: with USE_TESTNET equal to 'true' in any case the facilitator uses
\* eip155:84532 and the Base Sepolia USDC, otherwise eip155:8453 and the
\* mainnet USDC; the network registered, the network of /health and /, the
\* USDC of /health and the contract of every forward are of that one pair.
NetworkConsistent ==
    /\ config.proc = "listening" => config.registered = NetworkPair[1]
    /\ \A r \in Req :
          /\ resp[r].route \in {"health", "root"} => resp[r].network = NetworkPair[1]
          /\ resp[r].route = "health" => resp[r].usdc = NetworkPair[2]
    /\ \A w \in sent : w.from = "forward" => w.contract = NetworkPair[2]

\* A process started with USE_TESTNET=True has registered the testnet and
\* a forward to the Base Sepolia USDC was taken.
ForwardOnTestnet ==
    /\ config.USE_TESTNET = "True"
    /\ config.registered = "eip155:84532"
    /\ \E w \in Accepted :
          w.from = "forward" /\ w.contract = "0x036CbD53842c5426634e7929541eC2318f3dCF7e"

\* C29: without FACILITATOR_PRIVATE_KEY the process exits with code 1
\* before it listens: it is never listening, no request is ever taken up,
\* and a request is served only by a process that has a key.
KeyRequired ==
    /\ config.key \in {"unset", ""} =>
          /\ config.proc # "listening"
          /\ \A r \in Req : pc[r] = "incoming" /\ resp[r] = NoResp
          /\ sent = {}
    /\ config.proc = "exited" => (config.exitCode = 1 /\ config.key \in {"unset", ""})
    /\ config.proc # "exited" => config.exitCode = 0
    /\ \A r \in Req :
          pc[r] # "incoming" => (config.proc = "listening" /\ config.key \in {"key1", "key2"})

\* A process started without the key has exited with code 1.
ExitedWithoutKey ==
    /\ config.key = "unset"
    /\ config.proc = "exited"
    /\ config.exitCode = 1
    /\ \A r \in Req : pc[r] = "incoming"

\* The document with every mainnet URL and identifier replaced in one pass.
RECURSIVE Templated(_)
Templated(str) ==
    IF str = <<>> THEN <<>>
    ELSE IF Len(str) >= 3 /\ SubSeq(str, 1, 3) = <<"https://", "api.", "moltmart.app">>
         THEN <<"https://", "testnet-api.", "moltmart.app">> \o Templated(SubSeq(str, 4, Len(str)))
    ELSE IF Len(str) >= 2 /\ SubSeq(str, 1, 2) = <<"https://", "moltmart.app">>
         THEN <<"https://", "testnet.", "moltmart.app">> \o Templated(SubSeq(str, 3, Len(str)))
    ELSE IF Head(str) = "eip155:8453"
         THEN <<"eip155:8453", "2">> \o Templated(Tail(str))
    ELSE <<Head(str)>> \o Templated(Tail(str))

\* The body without the comments put after a network line.
RECURSIVE WithoutComments(_)
WithoutComments(str) ==
    IF str = <<>> THEN <<>>
    ELSE IF Head(str) = "  # Base Sepolia TESTNET" THEN WithoutComments(Tail(str))
    ELSE <<Head(str)>> \o WithoutComments(Tail(str))

Served == page.stage \in {"env", "host"}

\* C30: in testnet mode the body is a testnet warning followed by the
\* document in which every eip155:8453 reads exactly eip155:84532, every
\* https://api.moltmart.app reads https://testnet-api.moltmart.app and every
\* https://moltmart.app reads https://testnet.moltmart.app, with nothing
\* left behind beside the comment of a network line; outside testnet mode
\* the body is the document.
TemplatingExact ==
    Served =>
        IF page.testnet
        THEN /\ Len(page.body) >= 1
             /\ <<Head(page.body)>> \in {TestnetWarning, Warning}
             /\ WithoutComments(Tail(page.body)) = Templated(page.file)
        ELSE page.body = page.file

====
